---- MODULE Spec2Model ----
(***************************************************************************)
(* url_strip: the URL grammar and parser (HttpUrl.from_str), the           *)
(* serializer (HttpUrl.into_str), the rewrite registry (register,          *)
(* special_cases_map), the per-domain rewrite rules and the dispatcher     *)
(* (strip_url).  Python strings are sequences of one-character strings;    *)
(* a Result is the two-tuple <<"ok", v>> or <<"err", e>> of the source.    *)
(***************************************************************************)
EXTENDS Integers, Sequences, FiniteSets, TLC

\* ---------------------------------------------------------------- characters
Lower == {"a","b","c","d","e","f","g","h","i","j","k","l","m",
          "n","o","p","q","r","s","t","u","v","w","x","y","z"}

Upper == {"A","B","C","D","E","F","G","H","I","J","K","L","M",
          "N","O","P","Q","R","S","T","U","V","W","X","Y","Z"}

Digit == {"0","1","2","3","4","5","6","7","8","9"}

\* U+0060, which a TLA+ string cannot hold
Grave == "U+0060"

\* the code points strictly between "Z" and "a", which the range A-z spans
BetweenZa == {"[", "\\", "]", "^", "_", Grave}

HexDigit == Digit \cup {"a","b","c","d","e","f","A","B","C","D","E","F"}

\* the bracket expression [a-zA-z0-9\-\.\_\-] of URL_CHARS
UrlCharClass == Lower \cup Upper \cup BetweenZa \cup Digit \cup {"-", ".", "_"}

\* \w of the re module, on the characters used here
WordChar == Lower \cup Upper \cup Digit \cup {"_"}

\* ------------------------------------------------------------ string helpers
None == <<>>

Some(x) == <<x>>

\* the character after offset i (s[i] of the 0-based source), "" past the end
At(s, i) == IF i >= 0 /\ i < Len(s) THEN s[i + 1] ELSE ""

\* the slice s[i:j], for 0 <= i
Slice(s, i, j) == SubSeq(s, i + 1, IF j > Len(s) THEN Len(s) ELSE j)

startswith(s, p) == Len(s) >= Len(p) /\ SubSeq(s, 1, Len(p)) = p

RECURSIVE rstrip(_, _)
rstrip(s, c) ==
    IF Len(s) > 0 /\ s[Len(s)] = c THEN rstrip(SubSeq(s, 1, Len(s) - 1), c) ELSE s

RECURSIVE split(_, _)
split(s, sep) ==
    IF \E i \in 1..Len(s) : s[i] = sep
    THEN LET i == CHOOSE k \in 1..Len(s) : s[k] = sep /\ \A j \in 1..(k - 1) : s[j] # sep
         IN  <<SubSeq(s, 1, i - 1)>> \o split(SubSeq(s, i + 1, Len(s)), sep)
    ELSE <<s>>

RECURSIVE join(_, _)
join(sep, parts) ==
    IF Len(parts) = 0 THEN <<>>
    ELSE IF Len(parts) = 1 THEN parts[1]
    ELSE parts[1] \o sep \o join(sep, Tail(parts))

\* ------------------------------------------------------------------- Result
Ok(v) == <<"ok", v>>

Err(e) == <<"err", e>>

UrlError(msg) == [cls |-> "UrlError", msg |-> msg]

UrlParseError(msg) == [cls |-> "UrlParseError", msg |-> msg]

\* the outcome of a call: it returns a value or an exception leaves it
Return(v) == [kind |-> "return", value |-> v]

Raise(e) == [kind |-> "raise", exc |-> e]

\* ------------------------------------------------------------------ grammar
\* Each piece of the pattern maps an offset to the set of offsets at which a
\* match of the piece starting there can end.

\* ([a-zA-z0-9\-\.\_\-]|%[0-9a-fA-F]{2})
URL_CHARS(s, i) ==
    (IF At(s, i) \in UrlCharClass THEN {i + 1} ELSE {})
    \cup (IF At(s, i) = "%" /\ At(s, i + 1) \in HexDigit /\ At(s, i + 2) \in HexDigit
          THEN {i + 3} ELSE {})

\* (URL_CHARS|\:)
PathChar(s, i) == URL_CHARS(s, i) \cup (IF At(s, i) = ":" THEN {i + 1} ELSE {})

RECURSIVE UrlCharsStar(_, _)
UrlCharsStar(s, i) == {i} \cup UNION {UrlCharsStar(s, j) : j \in URL_CHARS(s, i)}

UrlCharsPlus(s, i) == UNION {UrlCharsStar(s, j) : j \in URL_CHARS(s, i)}

RECURSIVE PathCharStar(_, _)
PathCharStar(s, i) == {i} \cup UNION {PathCharStar(s, j) : j \in PathChar(s, i)}

\* (?P<domain>URL_CHARS+)
DOMAIN_CAPTURE(s, i) == UrlCharsPlus(s, i)

\* (?P<path>(/(URL_CHARS|\:)*)+)
RECURSIVE PATH_CAPTURE(_, _)
PATH_CAPTURE(s, i) ==
    IF At(s, i) = "/"
    THEN LET one == PathCharStar(s, i + 1)
         IN  one \cup UNION {PATH_CAPTURE(s, j) : j \in one}
    ELSE {}

\* (URL_CHARS|=)
ValueChar(s, i) == URL_CHARS(s, i) \cup (IF At(s, i) = "=" THEN {i + 1} ELSE {})

RECURSIVE ValueCharStar(_, _)
ValueCharStar(s, i) == {i} \cup UNION {ValueCharStar(s, j) : j \in ValueChar(s, i)}

\* URL_CHARS+=(URL_CHARS|=)+, a pair whose value may hold "="
QUERY_KV_any_value(s, i) ==
    UNION {IF At(s, k) = "="
           THEN UNION {ValueCharStar(s, j) : j \in ValueChar(s, k + 1)}
           ELSE {} : k \in UrlCharsPlus(s, i)}

\* URL_CHARS+=URL_CHARS+
QUERY_KV(s, i) ==
    UNION {IF At(s, k) = "=" THEN UrlCharsPlus(s, k + 1) ELSE {} : k \in UrlCharsPlus(s, i)}

\* QUERY_KV(&QUERY_KV)*
RECURSIVE QueryPairs(_, _)
QueryPairs(s, i) ==
    LET one == QUERY_KV(s, i)
    IN  one \cup UNION {IF At(s, j) = "&" THEN QueryPairs(s, j + 1) ELSE {} : j \in one}

\* (\?(?P<query>QUERY_KV(&QUERY_KV)*))
QUERY_CAPTURE(s, i) == IF At(s, i) = "?" THEN QueryPairs(s, i + 1) ELSE {}

\* (?P<fragment>#URL_CHARS+)
FRAGMENT_CAPTURE(s, i) == IF At(s, i) = "#" THEN UrlCharsPlus(s, i + 1) ELSE {}

\* \b
WordBoundary(s, i) == (At(s, i - 1) \in WordChar) # (At(s, i) \in WordChar)

\* (?:https?://)
SchemePrefix(s) ==
    (IF startswith(s, <<"h","t","t","p","s",":","/","/">>) THEN {8} ELSE {})
    \cup (IF startswith(s, <<"h","t","t","p",":","/","/">>) THEN {7} ELSE {})

\* every way the whole pattern matches at offset 0: the offsets at which the
\* scheme, the domain, the optional path, query and fragment end (an optional
\* group that does not take part ends where it starts)
Matches(s) ==
    IF ~WordBoundary(s, 0) THEN {}
    ELSE {m \in UNION {UNION {UNION {UNION {
                {<<h, d, p, q, f>> : f \in FRAGMENT_CAPTURE(s, q) \cup {q}}
                : q \in QUERY_CAPTURE(s, p) \cup {p}}
                : p \in PATH_CAPTURE(s, d) \cup {d}}
                : d \in DOMAIN_CAPTURE(s, h)}
                : h \in SchemePrefix(s)}
          : WordBoundary(s, m[5])}

\* greedy quantifiers: the engine tries the longer alternative of each group
\* first, the earlier group deciding before the later one
Prefers(m, n) ==
    \E k \in 1..5 : m[k] > n[k] /\ \A j \in 1..(k - 1) : m[j] = n[j]

\* the groups of the match m of s
Capture(s, m) ==
    [span     |-> <<0, m[5]>>,
     domain   |-> Some(Slice(s, m[1], m[2])),
     path     |-> IF m[3] > m[2] THEN Some(Slice(s, m[2], m[3])) ELSE None,
     query    |-> IF m[4] > m[3] THEN Some(Slice(s, m[3] + 1, m[4])) ELSE None,
     fragment |-> IF m[5] > m[4] THEN Some(Slice(s, m[4], m[5])) ELSE None]

\* the match the backtracking engine finds first among all, None without one
FirstMatch(s, all) ==
    IF all = {} THEN None
    ELSE Some(Capture(s, CHOOSE x \in all : \A y \in all \ {x} : Prefers(x, y)))

\* URL_REGEX.match(url)
URL_REGEX_match(s) == FirstMatch(s, Matches(s))

\* ------------------------------------------------------------------ HttpUrl
HttpUrl(domain, path, query, fragment) ==
    [domain |-> domain, path |-> path, query |-> query, fragment |-> fragment]

\* the pairs of a query string; key, value = i.split("=") raises ValueError
\* unless the piece holds exactly one "="
RECURSIVE ParsePairs(_)
ParsePairs(pieces) ==
    IF Len(pieces) = 0 THEN Return(<<>>)
    ELSE LET kv == split(pieces[1], "=")
         IN  IF Len(kv) # 2 THEN Raise("ValueError")
             ELSE LET rest == ParsePairs(Tail(pieces))
                  IN  IF rest.kind = "raise" THEN rest
                      ELSE Return(<<kv>> \o rest.value)

parse_query_str(query_str) ==
    IF query_str = None THEN Return(<<>>)
    ELSE ParsePairs(split(query_str[1], "&"))

\* the check of the span with only the start of the match compared
SpansFromStart(capture, url) == capture.span[1] = 0

\* capture.span() == (0, len(url))
SpansEntire(capture, url) == capture.span = <<0, Len(url)>>

\* lines 282-286 of from_str: the value built from the groups
FromGroups(domain, path, query, fragment) ==
    IF query.kind = "raise" THEN query
    ELSE Return(Ok(HttpUrl(domain, path, query.value, fragment)))

\* lines 269-286 of from_str, for the trimmed url and what the pattern matched
FromCapture(url, capture) ==
    IF capture = None
    THEN Return(Err(UrlParseError("Regex could not find url match")))
    ELSE IF ~SpansEntire(capture[1], url)
    THEN Return(Err(UrlParseError("Regex capture does not span entire string passed")))
    ELSE IF capture[1].domain = None
    THEN Return(Err(UrlParseError("Could not capture domain group")))
    ELSE FromGroups(capture[1].domain[1],
                    IF capture[1].path = None THEN <<>> ELSE capture[1].path[1],
                    parse_query_str(capture[1].query),
                    capture[1].fragment)

FromTrimmed(url) == FromCapture(url, URL_REGEX_match(url))

from_str(url_in) == FromTrimmed(rstrip(url_in, "/"))

\* the pairs of the query rendered value first
RECURSIVE QueryPartsSwapped(_)
QueryPartsSwapped(query) ==
    IF Len(query) = 0 THEN <<>>
    ELSE <<query[1][2] \o <<"=">> \o query[1][1]>> \o QueryPartsSwapped(Tail(query))

RECURSIVE QueryParts(_)
QueryParts(query) ==
    IF Len(query) = 0 THEN <<>>
    ELSE <<query[1][1] \o <<"=">> \o query[1][2]>> \o QueryParts(Tail(query))

\* the serializer with the fragment left out
into_str_without_fragment(self, protocol) ==
    LET query_str == IF Len(self.query) > 0
                     THEN <<"?">> \o join(<<"&">>, QueryParts(self.query)) ELSE <<>>
    IN  protocol \o <<":","/","/">> \o self.domain \o self.path \o query_str

into_str(self, protocol) ==
    LET query_str    == IF Len(self.query) > 0
                        THEN <<"?">> \o join(<<"&">>, QueryParts(self.query)) ELSE <<>>
        fragment_str == IF self.fragment # None THEN self.fragment[1] ELSE <<>>
    IN  protocol \o <<":","/","/">> \o self.domain \o self.path \o query_str \o fragment_str

\* ---------------------------------------------------------- percent-decoder
\* the characters U+0020 to U+007E in code point order
Ascii ==
    <<" ", "!", "\"", "#", "$", "%", "&", "'", "(", ")", "*", "+", ",", "-", ".", "/",
      "0", "1", "2", "3", "4", "5", "6", "7", "8", "9", ":", ";", "<", "=", ">", "?",
      "@", "A", "B", "C", "D", "E", "F", "G", "H", "I", "J", "K", "L", "M", "N", "O",
      "P", "Q", "R", "S", "T", "U", "V", "W", "X", "Y", "Z", "[", "\\", "]", "^", "_",
      Grave, "a", "b", "c", "d", "e", "f", "g", "h", "i", "j", "k", "l", "m", "n", "o",
      "p", "q", "r", "s", "t", "u", "v", "w", "x", "y", "z", "{", "|", "}", "~">>

\* ord(c)
Ord(c) == 31 + CHOOSE i \in DOMAIN Ascii : Ascii[i] = c

\* the value of one hexadecimal digit
HexValue(c) ==
    IF c \in Digit THEN Ord(c) - 48
    ELSE IF c \in {"a","b","c","d","e","f"} THEN Ord(c) - 87
    ELSE Ord(c) - 55

\* int(val, 16) for a val of two characters: besides two digits it accepts a
\* sign or a blank before one digit and a blank after one; ValueError otherwise
int16(val) ==
    IF val[1] \in HexDigit /\ val[2] \in HexDigit
    THEN Return(16 * HexValue(val[1]) + HexValue(val[2]))
    ELSE IF val[1] \in {" ", "+"} /\ val[2] \in HexDigit THEN Return(HexValue(val[2]))
    ELSE IF val[1] = "-" /\ val[2] \in HexDigit THEN Return(0 - HexValue(val[2]))
    ELSE IF val[1] \in HexDigit /\ val[2] = " " THEN Return(HexValue(val[1]))
    ELSE Raise("ValueError")

\* how many continuation bytes the lead byte b asks for, -1 for no lead byte
Continuations(b) ==
    IF b < 128 THEN 0
    ELSE IF b >= 194 /\ b <= 223 THEN 1
    ELSE IF b >= 224 /\ b <= 239 THEN 2
    ELSE IF b >= 240 /\ b <= 244 THEN 3
    ELSE -1

\* the values the byte after the lead byte b may take
SecondByte(b) ==
    IF b = 224 THEN 160..191
    ELSE IF b = 237 THEN 128..159
    ELSE IF b = 240 THEN 144..191
    ELSE IF b = 244 THEN 128..143
    ELSE 128..191

\* the n continuation bytes after the lead byte at offset i are well formed
WellFormed(bytes, i, n) ==
    /\ n >= 0
    /\ i + n < Len(bytes)
    /\ \A k \in 1..n :
          bytes[i + 1 + k] \in (IF k = 1 THEN SecondByte(bytes[i + 1]) ELSE 128..191)

\* the code point of the lead byte at offset i and its first k of n
\* continuation bytes
RECURSIVE CodePoint(_, _, _, _)
CodePoint(bytes, i, n, k) ==
    IF k = 0
    THEN IF n = 0 THEN bytes[i + 1]
         ELSE IF n = 1 THEN bytes[i + 1] - 192
         ELSE IF n = 2 THEN bytes[i + 1] - 224
         ELSE bytes[i + 1] - 240
    ELSE 64 * CodePoint(bytes, i, n, k - 1) + (bytes[i + 1 + k] - 128)

RECURSIVE decode_utf8(_, _, _)
\* one sequence of 1 + n bytes at offset i, then the rest
DecodeOne(bytes, i, text, n) ==
    IF ~WellFormed(bytes, i, n) THEN [ok |-> FALSE, start |-> i]
    ELSE decode_utf8(bytes, i + 1 + n, Append(text, CodePoint(bytes, i, n, n)))

\* bytes.decode("utf8") from offset i on, text being what is decoded so far:
\* the code points, or the offset of the first ill-formed sequence
decode_utf8(bytes, i, text) ==
    IF i >= Len(bytes) THEN [ok |-> TRUE, text |-> text]
    ELSE DecodeOne(bytes, i, text, Continuations(bytes[i + 1]))

\* UrlParseError(err), the exception carrying the one that caused it
Wrapping(err) == [cls |-> "UrlParseError", cause |-> err]

\* lines 229-232 of _expand_format_chars
Decoded(bytes, d) ==
    IF d.ok THEN Return(Ok(d.text))
    ELSE Return(Err(Wrapping([exc |-> "UnicodeDecodeError", object |-> bytes,
                              start |-> d.start])))

NotEnoughChars ==
    Return(Err(UrlParseError("Could not expand url element, not enough chars after % symbol")))

NotHexEncoded ==
    Return(Err(UrlParseError(
        "Could not expand url element, chars after % symbol are not hex encoded")))

RECURSIVE Loop(_, _, _, _)
\* lines 214-224: data = int(val, 16), then output.write(bytes([data])), which
\* raises ValueError unless 0 <= data < 256
WriteData(s, idx, output, data) ==
    IF data.kind = "raise" THEN NotHexEncoded
    ELSE IF data.value < 0 \/ data.value > 255 THEN Raise("ValueError")
    ELSE Loop(s, idx + 1, 2, Append(output, data.value))

\* lines 205-213: val = s[idx + 1:idx + 3]
Escape(s, idx, output, val) ==
    IF Len(val) # 2 THEN NotEnoughChars ELSE WriteData(s, idx, output, int16(val))

\* the loop of _expand_format_chars from index idx on
Loop(s, idx, skip, output) ==
    IF idx >= Len(s) THEN Decoded(output, decode_utf8(output, 0, <<>>))
    ELSE IF skip # 0 THEN Loop(s, idx + 1, skip - 1, output)
    ELSE IF At(s, idx) = "%" THEN Escape(s, idx, output, Slice(s, idx + 1, idx + 3))
    ELSE Loop(s, idx + 1, 0, Append(output, Ord(At(s, idx))))

\* HttpUrl._expand_format_chars(s); the str it returns is its code points
expand_format_chars(s) == Loop(s, 0, 0, <<>>)

RECURSIVE DecodeSegments(_, _)
\* lines 253-256 of path_decoded for the outcome i of one segment
Decide(splitpath, out, i) ==
    IF i.kind = "raise" THEN i
    ELSE IF i.value[1] = "ok" THEN DecodeSegments(Tail(splitpath), Append(out, i.value[2]))
    ELSE Return(Err(i.value[2]))

\* the loop of path_decoded over the segments still to decode
DecodeSegments(splitpath, out) ==
    IF Len(splitpath) = 0 THEN Return(Ok(out))
    ELSE Decide(splitpath, out, expand_format_chars(splitpath[1]))

\* self.path_decoded()
path_decoded(self) == DecodeSegments(split(self.path, "/"), <<>>)


\* ------------------------------------------------------------------- unwrap
\* the exception a call raises, with the message it carries
RaiseWith(e, msg) == [kind |-> "raise", exc |-> e, msg |-> msg]

\* loc: the file and line of the caller, or "" when the interpreter has no frames
Loc(caller_frame) ==
    IF caller_frame = None THEN <<>>
    ELSE caller_frame[1].co_filename \o <<":">> \o caller_frame[1].f_lineno \o <<" ">>

\* an f-string line "{label}: {type(result[1]).__name__}='{result[1]}'" with
\* its fields replaced: name is type(result[1]).__name__
Formatted(label, name, value) ==
    [fstring |-> TRUE, label |-> label, name |-> name, value |-> value]

\* a plain string literal: its braces stay as written
Literal(text) == [fstring |-> FALSE, text |-> text]

\* UnwrapError(f"{loc}Result type was X variant, expected Y variant\n" ...)
UnwrapError(loc, was, expected, second) ==
    RaiseWith("UnwrapError", [loc |-> loc, was |-> was, expected |-> expected,
                              second |-> second])

\* _result.ClassOk.unwrap(result)
result_ClassOk_unwrap(result, name, caller_frame) ==
    IF result[1] = "err"
    THEN UnwrapError(Loc(caller_frame), "Err", "Ok", Formatted("Err", name, result[2]))
    ELSE Return(result[2])

\* _result.ClassErr.unwrap(result)
result_ClassErr_unwrap(result, name, caller_frame) ==
    IF result[1] = "ok"
    THEN UnwrapError(Loc(caller_frame), "Ok", "Err", Formatted("Ok", name, result[2]))
    ELSE Return(result[2])

\* _types.ClassOk.unwrap(result): the second line has no f prefix
types_ClassOk_unwrap(result, name, caller_frame) ==
    IF result[1] = "err"
    THEN UnwrapError(Loc(caller_frame), "Err", "Ok",
                     Literal("Err: {type(result[1]).__name__}='{result[1]}'"))
    ELSE Return(result[2])

\* _types.ClassErr.unwrap(result): the second line has no f prefix
types_ClassErr_unwrap(result, name, caller_frame) ==
    IF result[1] = "ok"
    THEN UnwrapError(Loc(caller_frame), "Ok", "Err",
                     Literal("Ok: {type(result[1]).__name__}='{result[1]}'"))
    ELSE Return(result[2])

\* module.variant.unwrap(result)
unwrap(module, variant, result, name, caller_frame) ==
    IF module = "_result"
    THEN IF variant = "Ok" THEN result_ClassOk_unwrap(result, name, caller_frame)
         ELSE result_ClassErr_unwrap(result, name, caller_frame)
    ELSE IF variant = "Ok" THEN types_ClassOk_unwrap(result, name, caller_frame)
         ELSE types_ClassErr_unwrap(result, name, caller_frame)

\* ------------------------------------------------------------ rewrite rules
no_query(v) == HttpUrl(v.domain, v.path, <<>>, v.fragment)

\* dict(v.query): a later pair with the same key replaces the earlier one
dict(pairs) ==
    [k \in {pairs[i][1] : i \in DOMAIN pairs} |->
        LET last == CHOOSE i \in DOMAIN pairs :
                        pairs[i][1] = k /\ \A j \in DOMAIN pairs : pairs[j][1] = k => j <= i
        IN  pairs[last][2]]

\* list.index(x): the 0-based position of the first x, ValueError without one
index(list, x) ==
    IF \E i \in DOMAIN list : list[i] = x
    THEN Return((CHOOSE i \in DOMAIN list :
                    list[i] = x /\ \A j \in DOMAIN list : list[j] = x => i <= j) - 1)
    ELSE Raise("ValueError")

\* the watch rule taking the value of the first pair, whatever its key
youtube_strip_first_pair(v) ==
    IF v.path = <<"/","w","a","t","c","h">>
    THEN IF Len(v.query) = 0
         THEN Return(Err(UrlError("Address was a watch link, but could not find video id")))
         ELSE Return(Ok(HttpUrl(<<"y","o","u","t","u",".","b","e">>, <<"/">> \o v.query[1][2], <<>>, v.fragment)))
    ELSE Return(Ok(no_query(v)))

youtube_strip(v) ==
    LET quer == dict(v.query)
    IN  IF v.path = <<"/","w","a","t","c","h">>
        THEN IF ~(<<"v">> \in DOMAIN quer)
             THEN Return(Err(UrlError("Address was a watch link, but could not find video id")))
             ELSE Return(Ok(HttpUrl(<<"y","o","u","t","u",".","b","e">>, <<"/">> \o quer[<<"v">>], <<>>, v.fragment)))
        ELSE Return(Ok(no_query(v)))

amazon_strip(v) ==
    LET splitpath == split(v.path, "/")
        idx       == index(splitpath, <<"d","p">>)
    IN  IF idx.kind = "raise" THEN idx
        ELSE IF idx.value # -1
        THEN IF idx.value + 1 >= Len(splitpath)
             THEN Return(Ok(no_query(v)))
             ELSE Return(Ok(HttpUrl(v.domain, <<"/","d","p","/">> \o At(splitpath, idx.value + 1),
                                    <<>>, v.fragment)))
        ELSE Return(Ok(no_query(v)))

number_set == Digit

\* all(c in _number_set for c in i), true of the empty string
AllNumbers(i) == \A k \in DOMAIN i : i[k] \in number_set

ebay_strip(v) ==
    LET splitpath == split(v.path, "/")
        item_idx  == index(splitpath, <<"i","t","m">>)
    IN  IF item_idx.kind = "raise" THEN item_idx
        ELSE IF item_idx.value # -1
        THEN LET rest == Slice(splitpath, item_idx.value, Len(splitpath))
             IN  IF \E k \in DOMAIN rest : AllNumbers(rest[k])
                 THEN LET first == CHOOSE k \in DOMAIN rest :
                                       AllNumbers(rest[k])
                                       /\ \A j \in 1..(k - 1) : ~AllNumbers(rest[j])
                      IN  Return(Ok(HttpUrl(v.domain, <<"/","i","t","m","/">> \o rest[first],
                                            <<>>, v.fragment)))
                 ELSE Return(Err(UrlError("Found item identifier, but could not find item id")))
        ELSE Return(Ok(no_query(v)))

no_queryable(v) == Return(Ok(no_query(v)))

StripFuncs == {"youtube_strip", "amazon_strip", "ebay_strip", "no_queryable"}

\* f(v) for a registered function reference f
CallStripFunc(f, v) ==
    CASE f = "youtube_strip" -> youtube_strip(v)
      [] f = "amazon_strip"  -> amazon_strip(v)
      [] f = "ebay_strip"    -> ebay_strip(v)
      [] f = "no_queryable"  -> no_queryable(v)

\* ----------------------------------------------------------------- registry
\* the domain argument of register: a str, or a list of str
DomainStr(d) == [isstr |-> TRUE, val |-> d]

DomainList(ds) == [isstr |-> FALSE, val |-> ds]

\* special_cases_map.setdefault(d, f): the first registration stays
SetDefault(map, d, f) == [k \in DOMAIN map \cup {d} |-> IF k \in DOMAIN map THEN map[k] ELSE f]

\* special_cases_map[d] = f
SetItem(map, d, f) == [k \in DOMAIN map \cup {d} |-> IF k = d THEN f ELSE map[k]]

RECURSIVE SetItems(_, _, _)
SetItems(map, ds, f) ==
    IF Len(ds) = 0 THEN map ELSE SetItems(SetItem(map, ds[1], f), Tail(ds), f)

\* register without the test of the empty list
register_any_list(map, domain, f) ==
    IF domain.isstr
    THEN [map |-> SetItem(map, domain.val, f), out |-> Return(f)]
    ELSE [map |-> SetItems(map, domain.val, f), out |-> Return(f)]

\* register(domain=domain)(f): the map afterwards and the outcome of the call
register(map, domain, f) ==
    IF domain.isstr
    THEN [map |-> SetItem(map, domain.val, f), out |-> Return(f)]
    ELSE IF Len(domain.val) = 0
    THEN [map |-> map, out |-> Raise("NoDomainError")]
    ELSE [map |-> SetItems(map, domain.val, f), out |-> Return(f)]

special_cases(map) == DOMAIN map

\* the decorators of _special_cases.py, in the order the import applies them
ModuleRegistrations ==
    << [domain |-> DomainList(<<<<"y","o","u","t","u","b","e",".","c","o","m">>, <<"w","w","w",".","y","o","u","t","u","b","e",".","c","o","m">>>>), f |-> "youtube_strip"],
       [domain |-> DomainList(<<<<"w","w","w",".","a","m","a","z","o","n",".","c","o","m">>, <<"w","w","w",".","a","m","a","z","o","n",".","c","o",".","u","k">>>>), f |-> "amazon_strip"],
       [domain |-> DomainList(<<<<"e","b","a","y",".","c","o","m">>, <<"w","w","w",".","e","b","a","y",".","c","o","m">>, <<"w","w","w",".","e","b","a","y",".","c","o",".","u","k">>,
                                <<"w","w","w",".","e","b","a","y",".","i","t">>, <<"w","w","w",".","e","b","a","y",".","d","e">>>>), f |-> "ebay_strip"],
       [domain |-> DomainList(<<<<"w","w","w",".","t","i","k","t","o","k",".","c","o","m">>, <<"v","m",".","t","i","k","t","o","k",".","c","o","m">>>>), f |-> "no_queryable"],
       [domain |-> DomainStr(<<"w","w","w",".","r","e","d","d","i","t",".","c","o","m">>), f |-> "no_queryable"],
       [domain |-> DomainStr(<<"t","w","i","t","t","e","r",".","c","o","m">>), f |-> "no_queryable"] >>

\* --------------------------------------------------------------- dispatcher
\* the fallback with url.query[:-1], all pairs but the last kept
strip_all_but_last_query(url) ==
    LET copied  == url
        changed == [copied EXCEPT !.query = Slice(copied.query, 0, Len(copied.query) - 1)]
    IN  [out |-> Return(Ok(changed)), url |-> url]

\* strip_last_query(url): what it returns, and the caller's object afterwards
strip_last_query(url) ==
    LET copied  == url
        changed == [copied EXCEPT !.query = Slice(copied.query, 0, 1)]
    IN  [out |-> Return(Ok(changed)), url |-> url]

NotHttp == Err(UrlError("Url does not start with http(s)"))

endswith(s, p) == Len(s) >= Len(p) /\ SubSeq(s, Len(s) - Len(p) + 1, Len(s)) = p

\* the dispatch with a registered domain matched as a suffix of url.domain
DispatchBySuffix(map, url) ==
    LET keys == {k \in DOMAIN map : endswith(url.domain, k)}
    IN  IF keys # {}
        THEN LET f == map[CHOOSE k \in keys : \A j \in keys : Len(j) <= Len(k)]
             IN  [out |-> CallStripFunc(f, url), called |-> f, url_after |-> url]
        ELSE LET r == strip_last_query(url)
             IN  [out |-> r.out, called |-> "strip_last_query", url_after |-> r.url]

\* lines 39-42 of strip_url: the registered function for url.domain, else the
\* fallback; what is returned, the function called, the caller's url afterwards
Dispatch(map, url) ==
    IF url.domain \in DOMAIN map
    THEN [out |-> CallStripFunc(map[url.domain], url), called |-> map[url.domain],
          url_after |-> url]
    ELSE LET r == strip_last_query(url)
         IN  [out |-> r.out, called |-> "strip_last_query", url_after |-> r.url]

\* what strip_url reports once the url is parsed and dispatched
Dispatched(url, d) ==
    [out |-> d.out, parser |-> TRUE, called |-> d.called,
     url |-> Some(url), url_after |-> Some(d.url_after)]

\* lines 34-42 of strip_url, for the outcome of HttpUrl.from_str
StripParsed(parsed, map) ==
    IF parsed.kind = "raise"
    THEN [out |-> parsed, parser |-> TRUE, called |-> "none",
          url |-> None, url_after |-> None]
    ELSE IF parsed.value[1] = "err"
    THEN [out |-> Return(Err(parsed.value[2])), parser |-> TRUE, called |-> "none",
          url |-> None, url_after |-> None]
    ELSE Dispatched(parsed.value[2], Dispatch(map, parsed.value[2]))

\* strip_url(url_str) against the registry map: its outcome, whether
\* HttpUrl.from_str ran, the function it dispatched to, and the parsed value
\* before and after the dispatch
strip_url(url_str, map) ==
    IF ~startswith(url_str, <<"h","t","t","p">>)
    THEN [out |-> Return(NotHttp), parser |-> FALSE, called |-> "none",
          url |-> None, url_after |-> None]
    ELSE StripParsed(from_str(url_str), map)

\* ------------------------------------------------------------------- inputs
Schemes == {<<"h","t","t","p","s",":","/","/">>, <<"h","t","t","p",":","/","/">>, <<"h","t","t","p","x",":","/","/">>, <<"f","t","p",":","/","/">>}

Domains == {<<"y","o","u","t","u","b","e",".","c","o","m">>, <<"w","w","w",".","y","o","u","t","u","b","e",".","c","o","m">>, <<"m",".","y","o","u","t","u","b","e",".","c","o","m">>, <<"w","w","w",".","a","m","a","z","o","n",".","c","o","m">>,
            <<"w","w","w",".","e","b","a","y",".","c","o","m">>, <<"t","w","i","t","t","e","r",".","c","o","m">>, <<"a",".","b">>}

Paths == {<<>>, <<"/">>, <<"/","w","a","t","c","h">>, <<"/","x","/","d","p","/","B","1">>, <<"/","d","p">>, <<"/","i","t","m","/","x","/","1","2">>, <<"/","i","t","m","/","x">>,
          <<"/","x","-">>, <<"/","a","%","2","F","b",":","c">>}

Queries == {<<>>, <<"?","v","=","a","b">>, <<"?","t","=","1","&","v","=","a","b">>, <<"?","v","=","a","&","v","=","b","&","t","=","1">>, <<"?","t","=","1","&","u","=","2">>}

Fragments == {<<>>, <<"#","f">>}

Bodies == {<<"a",".","b">>, <<"a",".","b","/","x","?","k","=","v">>, <<"a",".","b","/","x","?","k","=","v","&","l","=","w","#","f">>, <<"y","o","u","t","u","b","e",".","c","o","m","/","w","a","t","c","h","?","v","=","a","b">>}

Tails == {<<>>, <<"/">>, <<"/","/">>, <<" ","x">>, <<".">>, <<"@">>}

Literals ==
    {<<>>, <<"s","\\","g","f">>, <<"h","t","t","p">>, <<"h","t","t","p","s",":","/","/">>,
     <<"h","t","t","p","s",":","/","/","w","w","w",".","t","i","k","t","o","k",".","c","o","m","/","@","u","s","e","r","/","v","i","d","e","o","/","1","2","3","?","_","t","=","x","&","_","r","=","1">>,
     <<"h","t","t","p","s",":","/","/","a",".","b","/","[","x","]">>, <<"h","t","t","p","s",":","/","/","a",".","b","/","x","^","y">>, <<"h","t","t","p","s",":","/","/","a","_","b","/","\\","z">>, <<"h","t","t","p","s",":","/","/","a",".","b","/",Grave,"z">>,
     <<"h","t","t","p","s",":","/","/","a",".","b","/","x","?","a">>, <<"h","t","t","p","s",":","/","/","a",".","b","/","x","?","a","=","b","=","c">>, <<"h","t","t","p","s",":","/","/","a",".","b","/","%","z","z">>, <<"h","t","t","p","s",":","/","/","a",".","b","/","%","4">>,
     <<"h","t","t","p","s",":","/","/","a","@","b">>, <<"h","t","t","p","s",":","/","/","a",".","b","/","x","?","k","=","@">>, <<"h","t","t","p","s",":","/","/","a",".","b","/","x","#","@">>, <<"h","t","t","p","s",":","/","/","a",".","b","/","x","#","[","q">>,
     <<"h","t","t","p","s",":","/","/","a",".","b","/","x","?","[","=","]">>, <<"h","t","t","p","s",":","/","/","a",":","b">>, <<"h","t","t","p","s",":","/","/","a",".","b","/","x","?","k","=","v",":">>,
     <<"h","t","t","p","s",":","/","/","w","w","w",".","e","b","a","y",".","c","o","m","/","i","t","m","/","/","x">>, <<"h","t","t","p","s",":","/","/","w","w","w",".","a","m","a","z","o","n",".","c","o","m","/","a","/","d","p","/","/","b">>}

\* the strings handed to strip_url and HttpUrl.from_str
Inputs ==
    {<<"h","t","t","p","s",":","/","/">> \o d \o p \o q \o f : d \in Domains, p \in Paths, q \in Queries, f \in Fragments}
    \cup {s \o b \o t : s \in Schemes, b \in Bodies, t \in Tails}
    \cup Literals

\* register calls made by a program that uses the library
RegisterCalls ==
    {[domain |-> DomainStr(<<"m",".","y","o","u","t","u","b","e",".","c","o","m">>), f |-> "youtube_strip"],
     [domain |-> DomainStr(<<"y","o","u","t","u","b","e",".","c","o","m">>), f |-> "no_queryable"],
     [domain |-> DomainList(<<>>), f |-> "youtube_strip"],
     [domain |-> DomainList(<<<<"a",".","b">>, <<"w","w","w",".","y","o","u","t","u","b","e",".","c","o","m">>>>), f |-> "no_queryable"]}

Protocols == {<<"h","t","t","p","s">>, <<"h","t","t","p">>}

MaxRegisterCalls == 1

\* -------------------------------------------------------------------- state
VARIABLES
    url_str,            \* the string this run works on
    special_cases_map,  \* _special_cases.special_cases_map
    imported,           \* how many decorators of _special_cases.py have run
    registered,         \* the register calls that returned, in order
    register_calls,     \* how many register calls the program has made
    op,                 \* the call that completed last
    arg,                \* its argument
    ret,                \* its outcome
    trace,              \* for strip_url: what it did on the way
    prev                \* for a second strip_url: the outcome of the first

vars == <<url_str, special_cases_map, imported, registered, register_calls,
          op, arg, ret, trace, prev>>

NoTrace == [parser |-> FALSE, called |-> "none", url |-> None, url_after |-> None]

Init ==
    /\ url_str \in Inputs
    /\ special_cases_map = <<>>
    /\ imported = 0
    /\ registered = <<>>
    /\ register_calls = 0
    /\ op = "none"
    /\ arg = <<>>
    /\ ret = Return(None)
    /\ trace = NoTrace
    /\ prev = Return(None)

Imported == imported = Len(ModuleRegistrations)

\* one decorator application register(domain=...)(f)
Registered(r, done) ==
    /\ special_cases_map' = done.map
    /\ registered' = IF done.out.kind = "return" THEN Append(registered, r) ELSE registered
    /\ op' = "register"
    /\ arg' = r
    /\ ret' = done.out
    /\ trace' = NoTrace
    /\ UNCHANGED <<url_str, prev>>

DoRegister(r) == Registered(r, register(special_cases_map, r.domain, r.f))

\* import url_strip: the decorators of _special_cases.py run in order
ImportRegister ==
    /\ ~Imported
    /\ DoRegister(ModuleRegistrations[imported + 1])
    /\ imported' = imported + 1
    /\ UNCHANGED register_calls

\* the program registers a function of its own
Register(r) ==
    /\ Imported
    /\ register_calls < MaxRegisterCalls
    /\ DoRegister(r)
    /\ register_calls' = register_calls + 1
    /\ UNCHANGED imported

\* HttpUrl.from_str(url_str)
FromStr ==
    /\ Imported
    /\ op' = "from_str"
    /\ arg' = url_str
    /\ ret' = from_str(url_str)
    /\ trace' = NoTrace
    /\ UNCHANGED <<url_str, special_cases_map, imported, registered, register_calls, prev>>

\* url.into_str(protocol=...) on the value from_str has just returned
IntoStr(protocol) ==
    /\ op = "from_str"
    /\ ret.kind = "return"
    /\ ret.value[1] = "ok"
    /\ op' = "into_str"
    /\ arg' = [self |-> ret.value[2], protocol |-> protocol]
    /\ ret' = Return(into_str(ret.value[2], protocol))
    /\ UNCHANGED <<url_str, special_cases_map, imported, registered, register_calls,
                   trace, prev>>

\* strip_url(s)
StripDone(s, done) ==
    /\ arg' = s
    /\ ret' = done.out
    /\ trace' = [parser |-> done.parser, called |-> done.called,
                 url |-> done.url, url_after |-> done.url_after]
    /\ UNCHANGED <<url_str, special_cases_map, imported, registered, register_calls>>

DoStrip(s) == StripDone(s, strip_url(s, special_cases_map))

StripUrl ==
    /\ Imported
    /\ op' = "strip_url"
    /\ prev' = Return(None)
    /\ DoStrip(url_str)

\* strip_url(url.into_str()) on the value strip_url has just returned
StripAgain ==
    /\ op = "strip_url"
    /\ ret.kind = "return"
    /\ ret.value[1] = "ok"
    /\ op' = "strip_again"
    /\ prev' = ret
    /\ DoStrip(into_str(ret.value[2], <<"h","t","t","p","s">>))

Next ==
    \/ ImportRegister
    \/ \E r \in RegisterCalls : Register(r)
    \/ FromStr
    \/ \E protocol \in Protocols : IntoStr(protocol)
    \/ StripUrl
    \/ StripAgain

Spec == Init /\ [][Next]_vars


\* ---------------------------------------------- the accessors of _types.py
\* escapes in a path segment, in a query value and on their own
EscapedPaths ==
    {<<>>, <<"/">>, <<"/","a","%","2","F","b">>, <<"/","a","%","2","f","b","/","c">>, <<"/","%","C","3","%","A","9","/","x">>, <<"/","x","/","%","C","3">>, <<"/","%","F","F","/","%","C","3">>,
     <<"/","%","E","2","%","8","2","%","A","C">>, <<"/","%","E","D","%","A","0","%","8","0">>, <<"/","%","C","0","%","8","0">>, <<"/","a",":","b","/","%","4","1">>, <<"/","%","F","0","%","9","F","%","9","8","%","8","0">>,
     <<"/","%","F","4","%","9","0","%","8","0","%","8","0">>, <<"/","%","+","f">>, <<"/","%","-","1","/","x">>, <<"/","x","/","%","-","1">>, <<"/","%","F","F","/","%","-","1">>, <<"/","%","4">>,
     <<"/","%","z","z","/","%","F","F">>, <<"/","a","/","%">>}

EscapedQueries == {<<>>, <<"?","k","=","v">>, <<"?","k","=","%","C","3">>}

Escapes ==
    {<<"%","+","f">>, <<"%","-","1">>, <<"%","-","0">>, <<"%"," ","f">>, <<"%","f"," ">>, <<"%","%","4","1">>, <<"%","%","4">>, <<"%","4">>, <<"%">>,
     <<"a","%","2","F","b">>, <<"%","z","z">>, <<"%","C","3","%","A","9">>, <<"%","c","3","%","a","9">>, <<"%","C","3">>, <<"a","b","c">>, <<"a","%","4","1","%">>, <<"%","4","g">>,
     <<"%","_","f">>, <<"%","4","1","%","+","f">>, <<"%","F","F","%","+","f">>, <<"%","+","f","%","z","z">>}

\* the strings handed to from_str, to _expand_format_chars and, as a path, to HttpUrl
TypesInputs ==
    {<<"h","t","t","p","s",":","/","/","a",".","b">> \o p \o q : p \in EscapedPaths, q \in EscapedQueries}
    \cup EscapedPaths \cup Escapes

\* the frame of the caller of unwrap, or None on an interpreter without frames
Frames == {None, Some([co_filename |-> <<"a","p","p",".","p","y">>, f_lineno |-> <<"7">>])}

RECURSIVE ImportedMap(_)
\* special_cases_map after the first n decorators of _special_cases.py
ImportedMap(n) ==
    IF n = 0 THEN <<>>
    ELSE register(ImportedMap(n - 1), ModuleRegistrations[n].domain,
                  ModuleRegistrations[n].f).map

\* the package is imported; the program holds one string
InitTypes ==
    /\ url_str \in TypesInputs
    /\ special_cases_map = ImportedMap(Len(ModuleRegistrations))
    /\ imported = Len(ModuleRegistrations)
    /\ registered = ModuleRegistrations
    /\ register_calls = 0
    /\ op = "none"
    /\ arg = <<>>
    /\ ret = Return(None)
    /\ trace = NoTrace
    /\ prev = Return(None)

\* HttpUrl._expand_format_chars(url_str)
ExpandFormatChars ==
    /\ op' = "expand"
    /\ arg' = url_str
    /\ ret' = expand_format_chars(url_str)
    /\ trace' = NoTrace
    /\ UNCHANGED <<url_str, special_cases_map, imported, registered, register_calls, prev>>

\* self.path_decoded(): it reads self and writes nothing to it
Decoding(self) ==
    /\ op' = "path_decoded"
    /\ arg' = self
    /\ ret' = path_decoded(self)
    /\ trace' = [parser |-> FALSE, called |-> "path_decoded", url |-> Some(self),
                 url_after |-> Some(self)]
    /\ UNCHANGED <<url_str, special_cases_map, imported, registered, register_calls, prev>>

\* path_decoded on the value from_str has just returned
PathDecoded ==
    /\ op = "from_str"
    /\ ret.kind = "return"
    /\ ret.value[1] = "ok"
    /\ Decoding(ret.value[2])

\* path_decoded on HttpUrl("a.b", url_str, [], None), built by the program
BuiltPathDecoded == Decoding(HttpUrl(<<"a",".","b">>, url_str, <<>>, None))

\* type(result[1]).__name__ for the result of the call op
TypeName(call, result) ==
    IF result[1] = "err" THEN result[2].cls
    ELSE IF call = "from_str" THEN "HttpUrl" ELSE "str"

\* module.variant.unwrap(result) on the Result the last call returned
Unwrap(module, variant, caller_frame) ==
    /\ op \in {"from_str", "expand"}
    /\ ret.kind = "return"
    /\ op' = "unwrap"
    /\ arg' = [module |-> module, variant |-> variant, result |-> ret.value,
               name |-> TypeName(op, ret.value), caller_frame |-> caller_frame]
    /\ ret' = unwrap(module, variant, ret.value, TypeName(op, ret.value), caller_frame)
    /\ trace' = NoTrace
    /\ UNCHANGED <<url_str, special_cases_map, imported, registered, register_calls, prev>>

NextTypes ==
    \/ FromStr
    \/ ExpandFormatChars
    \/ PathDecoded
    \/ BuiltPathDecoded
    \/ \E module \in {"_result", "_types"}, variant \in {"Ok", "Err"},
          caller_frame \in Frames : Unwrap(module, variant, caller_frame)

SpecTypes == InitTypes /\ [][NextTypes]_vars
\* ------------------------------------------------------------------- claims
IsOk(r) == r.kind = "return" /\ r.value[1] = "ok"

IsErr(r) == r.kind = "return" /\ r.value[1] = "err"

\* strip_url has just completed on arg
Stripped == op \in {"strip_url", "strip_again"}

YoutubeDomains == {<<"y","o","u","t","u","b","e",".","c","o","m">>, <<"w","w","w",".","y","o","u","t","u","b","e",".","c","o","m">>}

IncompleteMatch == Return(Err(UrlParseError("Regex capture does not span entire string passed")))

\* C1: for an input that parses, strip_url calls the function registered under
\* a key exactly when the parsed domain equals that key and returns that call's
\* outcome unchanged; it applies the fallback exactly when the domain is no key.
\* With the registrations of the import alone, youtube_strip runs for exactly
\* youtube.com and www.youtube.com.
C1_DispatchPrecedence ==
    (Stripped /\ IsOk(from_str(arg))) =>
        LET url == from_str(arg).value[2]
        IN  /\ \A f \in StripFuncs :
                  trace.called = f <=>
                      \E k \in special_cases(special_cases_map) :
                          k = url.domain /\ special_cases_map[k] = f
            /\ trace.called = "strip_last_query"
                  <=> url.domain \notin special_cases(special_cases_map)
            /\ url.domain \in special_cases(special_cases_map)
                  => ret = CallStripFunc(special_cases_map[url.domain], url)
            /\ registered = ModuleRegistrations
                  => (trace.called = "youtube_strip" <=> url.domain \in YoutubeDomains)

C1_Witness ==
    /\ op = "strip_url"
    /\ trace.called = "youtube_strip"
    /\ IsErr(ret)
    /\ registered = ModuleRegistrations

\* C2: for a parsed URL whose domain is not registered, strip_url returns Ok of
\* a URL with the same domain, path and fragment whose query is the first pair
\* only (empty when there was none), and the parsed HttpUrl is left as it was.
C2_GenericFallback ==
    (Stripped /\ IsOk(from_str(arg))
        /\ from_str(arg).value[2].domain \notin special_cases(special_cases_map)) =>
        LET url == from_str(arg).value[2]
        IN  /\ IsOk(ret)
            /\ ret.value[2].domain = url.domain
            /\ ret.value[2].path = url.path
            /\ ret.value[2].fragment = url.fragment
            /\ ret.value[2].query = IF Len(url.query) = 0 THEN <<>> ELSE <<url.query[1]>>
            /\ trace.url_after = Some(url)

C2_Witness ==
    /\ op = "strip_url"
    /\ trace.called = "strip_last_query"
    /\ Len(trace.url[1].query) = 3
    /\ trace.url[1].fragment # None
    /\ IsOk(ret)
    /\ Len(ret.value[2].query) = 1

\* C3 (as claimed): every input that does not begin with http:// or https://
\* gets the NotHttpScheme error from strip_url, and the parser is not invoked.
C3_SchemeRequirement ==
    (Stripped /\ ~startswith(arg, <<"h","t","t","p",":","/","/">>) /\ ~startswith(arg, <<"h","t","t","p","s",":","/","/">>)) =>
        (ret = Return(NotHttp) /\ ~trace.parser)

\* C4: from_str returns Ok only if the match covers the whole input after the
\* trailing "/" are stripped; when the match ends before the end of the trimmed
\* input the result is the IncompleteMatch error; an input holding a character
\* no part of the grammar matches is never Ok.
C4_FullSpan ==
    op = "from_str" =>
        LET url     == rstrip(arg, "/")
            capture == URL_REGEX_match(url)
        IN  /\ IsOk(ret) => (capture # None /\ capture[1].span = <<0, Len(url)>>)
            /\ (capture # None /\ capture[1].span[2] < Len(url)) => ret = IncompleteMatch
            /\ (\E i \in DOMAIN url : url[i] \in {" ", "@"}) => ~IsOk(ret)

C4_Witness ==
    /\ op = "from_str"
    /\ ret = IncompleteMatch
    /\ URL_REGEX_match(rstrip(arg, "/")) # None
    /\ arg[Len(arg)] = "x"

DropScheme(t) ==
    IF startswith(t, <<"h","t","t","p","s",":","/","/">>) THEN Slice(t, 8, Len(t)) ELSE Slice(t, 7, Len(t))

\* C5: for an input u that from_str accepts, into_str returns the protocol,
\* "://" and u without its scheme prefix and trailing "/"; with the default
\* protocol an http:// input comes back as https://, and with protocol "http"
\* the trimmed http:// input comes back exactly.
C5_RoundTrip ==
    op = "into_str" =>
        LET t == rstrip(url_str, "/")
        IN  /\ ret.value = arg.protocol \o <<":","/","/">> \o DropScheme(t)
            /\ arg.protocol = <<"h","t","t","p","s">> => ret.value = <<"h","t","t","p","s",":","/","/">> \o DropScheme(t)
            /\ (arg.protocol = <<"h","t","t","p">> /\ startswith(t, <<"h","t","t","p",":","/","/">>)) => ret.value = t

C5_Witness ==
    /\ op = "into_str"
    /\ arg.protocol = <<"h","t","t","p","s">>
    /\ startswith(url_str, <<"h","t","t","p",":","/","/">>)
    /\ url_str[Len(url_str)] = "/"
    /\ Len(arg.self.query) = 2
    /\ arg.self.fragment # None
    /\ startswith(ret.value, <<"h","t","t","p","s",":","/","/">>)

\* C6: for a well-formed URL with a single query pair and an unregistered
\* domain, stripping it, serializing the result and stripping that string again
\* yields Ok with the same URL value as the first strip.
C6_FallbackIdempotent ==
    (op = "strip_again" /\ IsOk(from_str(url_str))
        /\ Len(from_str(url_str).value[2].query) = 1
        /\ from_str(url_str).value[2].domain \notin special_cases(special_cases_map)) =>
        (IsOk(ret) /\ ret = prev)

C6_Witness ==
    /\ op = "strip_again"
    /\ IsOk(from_str(url_str))
    /\ Len(from_str(url_str).value[2].query) = 1
    /\ from_str(url_str).value[2].fragment # None
    /\ trace.called = "strip_last_query"
    /\ IsOk(ret)

HasKey(query, k) == \E i \in DOMAIN query : query[i][1] = k

\* the value of the last pair of the query with key k
LastValue(query, k) ==
    query[CHOOSE i \in DOMAIN query :
              query[i][1] = k /\ \A j \in DOMAIN query : j > i => query[j][1] # k][2]

\* C7: on youtube.com or www.youtube.com with path exactly /watch, the rule
\* returns Ok(youtu.be, "/" + the value of query key v, no query, the original
\* fragment) when the query has a key v, and the UrlError "could not find video
\* id", which is not a parse error, when it has none.
C7_YoutubeWatch ==
    (Stripped /\ trace.called = "youtube_strip" /\ IsOk(from_str(arg))
        /\ from_str(arg).value[2].domain \in YoutubeDomains
        /\ from_str(arg).value[2].path = <<"/","w","a","t","c","h">>) =>
        LET url == from_str(arg).value[2]
        IN  IF HasKey(url.query, <<"v">>)
            THEN ret = Return(Ok(HttpUrl(<<"y","o","u","t","u",".","b","e">>, <<"/">> \o LastValue(url.query, <<"v">>),
                                         <<>>, url.fragment)))
            ELSE /\ IsErr(ret)
                 /\ ret.value[2].cls = "UrlError"
                 /\ ret.value[2].msg = "Address was a watch link, but could not find video id"

C7_Witness ==
    /\ op = "strip_url"
    /\ trace.called = "youtube_strip"
    /\ trace.url[1].path = <<"/","w","a","t","c","h">>
    /\ Len(trace.url[1].query) = 2
    /\ trace.url[1].query[1][1] # <<"v">>
    /\ trace.url[1].fragment # None
    /\ IsOk(ret)
    /\ ret.value[2].domain = <<"y","o","u","t","u",".","b","e">>
    /\ ret.value[2].query = <<>>

\* C8 (as claimed): from_str accepts the tiktok form with a path segment that
\* begins with "@", and rejects every URL holding one of [ ] ^ \ or a backtick.
C8_CharacterClass ==
    op = "from_str" =>
        /\ arg = <<"h","t","t","p","s",":","/","/","w","w","w",".","t","i","k","t","o","k",".","c","o","m","/","@","u","s","e","r","/","v","i","d","e","o","/","1","2","3","?","_","t","=","x","&","_","r","=","1">> => IsOk(ret)
        /\ (\E i \in DOMAIN arg : arg[i] \in {"[", "]", "^", "\\", Grave}) => ~IsOk(ret)

\* C9 (as claimed): for an input that parses to a registered domain, strip_url
\* returns an Ok or an Err and never raises; amazon_strip on a path without a
\* dp segment and ebay_strip on a path without an itm segment return Ok of the
\* same URL with its query removed.
C9_NoExceptionEscapes ==
    (Stripped /\ IsOk(from_str(arg))
        /\ from_str(arg).value[2].domain \in special_cases(special_cases_map)) =>
        LET url == from_str(arg).value[2]
            seg == split(url.path, "/")
        IN  /\ ret.kind = "return"
            /\ (trace.called = "amazon_strip" /\ \A i \in DOMAIN seg : seg[i] # <<"d","p">>)
                  => ret = Return(Ok(no_query(url)))
            /\ (trace.called = "ebay_strip" /\ \A i \in DOMAIN seg : seg[i] # <<"i","t","m">>)
                  => ret = Return(Ok(no_query(url)))

\* the domains one register call names
DomainsOf(r) ==
    IF r.domain.isstr THEN {r.domain.val} ELSE {r.domain.val[i] : i \in DOMAIN r.domain.val}

\* the function of the most recent returned registration that names d
LastRegistered(d) ==
    registered[CHOOSE i \in DOMAIN registered :
                   d \in DomainsOf(registered[i])
                   /\ \A j \in DOMAIN registered :
                          j > i => d \notin DomainsOf(registered[j])].f

RegistryIsUnionLastWins ==
    /\ special_cases(special_cases_map) = UNION {DomainsOf(registered[i]) : i \in DOMAIN registered}
    /\ \A d \in special_cases(special_cases_map) : special_cases_map[d] = LastRegistered(d)

\* C10: after any sequence of register calls the registered domains are exactly
\* the union of the domains of the registrations that returned, the set never
\* shrinks, and each domain maps to the function of its most recent
\* registration, given as a str, in a list or by stacked decorators.
C10_RegistryState ==
    /\ []RegistryIsUnionLastWins
    /\ [][special_cases(special_cases_map) \subseteq special_cases(special_cases_map')]_vars

C10_Witness ==
    /\ register_calls = 1
    /\ Len(registered) = Len(ModuleRegistrations) + 1
    /\ <<"a",".","b">> \in special_cases(special_cases_map)
    /\ special_cases_map[<<"a",".","b">>] = "no_queryable"
    /\ special_cases_map[<<"w","w","w",".","y","o","u","t","u","b","e",".","c","o","m">>] = "no_queryable"
    /\ special_cases_map[<<"y","o","u","t","u","b","e",".","c","o","m">>] = "youtube_strip"

\* C11 (as claimed): once strip_url has been called, no later register call
\* changes the registry.
C11_RegistryFreeze ==
    [][Stripped => special_cases_map' = special_cases_map]_vars

EmptyList(domain) == ~domain.isstr /\ Len(domain.val) = 0

\* C12: register with an empty domain list fails with NoDomainError and leaves
\* the registry as it was; with a non-empty list or a str it returns the
\* function itself, every named domain then mapping to it.
C12_RegisterEmptyList ==
    [][op' = "register" =>
          IF EmptyList(arg'.domain)
          THEN /\ ret' = Raise("NoDomainError")
               /\ special_cases_map' = special_cases_map
          ELSE /\ ret' = Return(arg'.f)
               /\ \A d \in DomainsOf(arg') :
                      /\ d \in special_cases(special_cases_map')
                      /\ special_cases_map'[d] = arg'.f]_vars

C12_Witness ==
    /\ op = "register"
    /\ EmptyList(arg.domain)
    /\ ret = Raise("NoDomainError")
    /\ special_cases(special_cases_map) # {}


\* the segment decodes: the decoder returns Ok for it
SegmentDecodes(seg) ==
    /\ expand_format_chars(seg).kind = "return"
    /\ expand_format_chars(seg).value[1] = "ok"

FirstFailing(segs) == CHOOSE i \in DOMAIN segs :
    ~SegmentDecodes(segs[i]) /\ \A j \in 1..(i - 1) : SegmentDecodes(segs[j])

PathDecodedAsClaimed(self, segs, out) ==
    /\ out.kind = "return"
    /\ IF \A i \in DOMAIN segs : SegmentDecodes(segs[i])
       THEN out.value = Ok([i \in DOMAIN segs |-> expand_format_chars(segs[i]).value[2]])
       ELSE /\ out.value[1] = "err"
            /\ expand_format_chars(segs[FirstFailing(segs)]).kind = "return"
            /\ out.value = expand_format_chars(segs[FirstFailing(segs)]).value
    /\ trace.url_after = Some(self)

\* C13 (as claimed): path_decoded splits the stored path on "/" and decodes
\* each segment on its own; it returns Ok of all the decoded segments in order
\* exactly if every segment decodes, otherwise it returns the Err of the first
\* failing segment, and the HttpUrl keeps its path as it was.
C13_PathDecodedAtomic ==
    op = "path_decoded" => PathDecodedAsClaimed(arg, split(arg.path, "/"), ret)

RECURSIVE Scan(_, _, _)
\* the decoder as claimed: every "%" takes the next two characters, which
\* must be two hexadecimal digits
Scan(s, idx, bytes) ==
    IF idx >= Len(s) THEN [err |-> "none", bytes |-> bytes]
    ELSE IF At(s, idx) # "%" THEN Scan(s, idx + 1, Append(bytes, Ord(At(s, idx))))
    ELSE IF Len(s) - (idx + 1) < 2 THEN [err |-> "MalformedEscape"]
    ELSE IF At(s, idx + 1) \notin HexDigit \/ At(s, idx + 2) \notin HexDigit
    THEN [err |-> "InvalidHexDigits"]
    ELSE Scan(s, idx + 3,
              Append(bytes, 16 * HexValue(At(s, idx + 1)) + HexValue(At(s, idx + 2))))

ExpandAsClaimed(claimed, out) ==
    /\ out.kind = "return"
    /\ claimed.err = "MalformedEscape" => out = NotEnoughChars
    /\ claimed.err = "InvalidHexDigits" => out = NotHexEncoded
    /\ claimed.err = "none" =>
           out = Decoded(claimed.bytes, decode_utf8(claimed.bytes, 0, <<>>))

\* C14 (as claimed): the decoder returns a Result for every string; a "%" with
\* fewer than two characters after it gives the not-enough-chars Err, a "%"
\* whose two characters are not two hexadecimal digits gives the not-hex Err,
\* and otherwise the two digits give one byte.
C14_DecoderStrict ==
    op = "expand" => ExpandAsClaimed(Scan(arg, 0, <<>>), ret)

Wanted(variant) == IF variant = "Ok" THEN "ok" ELSE "err"

Other(variant) == IF variant = "Ok" THEN "Err" ELSE "Ok"

\* C15 (as claimed): in both modules, unwrap returns the payload of the
\* variant it is asked for, and on the other variant raises UnwrapError with
\* a message that names that variant and holds its type name and value.
C15_UnwrapContract ==
    op = "unwrap" =>
        IF arg.result[1] = Wanted(arg.variant)
        THEN ret = Return(arg.result[2])
        ELSE /\ ret.kind = "raise"
             /\ ret.exc = "UnwrapError"
             /\ ret.msg.was = Other(arg.variant)
             /\ ret.msg.second.fstring
             /\ ret.msg.second.label = Other(arg.variant)
             /\ ret.msg.second.name = arg.name
             /\ ret.msg.second.value = arg.result[2]

Chars(s) == {s[i] : i \in DOMAIN s}

Count(s, c) == Cardinality({i \in DOMAIN s : s[i] = c})

\* the text after the first "?" of s up to the next "#", if s has a "?"
QueryText(s) ==
    IF "?" \notin Chars(s) THEN None
    ELSE Some(split(SubSeq(s, index(s, "?").value + 2, Len(s)), "#")[1])

IllFormedPair(s) ==
    /\ QueryText(s) # None
    /\ \E piece \in Chars(split(QueryText(s)[1], "&")) : Count(piece, "=") # 1

WellFormedPair(pair) ==
    /\ Len(pair) = 2
    /\ \A i \in 1..2 : Len(pair[i]) > 0 /\ "=" \notin Chars(pair[i]) /\ "&" \notin Chars(pair[i])

\* C16: from_str returns Ok or Err for every string and never raises; every
\* pair of a parsed URL has a non-empty key and a non-empty value without "="
\* or "&"; a string with a query pair that has no "=" or several is an Err.
C16_QueryPairs ==
    op = "from_str" =>
        /\ ret.kind = "return"
        /\ IsOk(ret) => \A i \in DOMAIN ret.value[2].query :
                            WellFormedPair(ret.value[2].query[i])
        /\ IllFormedPair(arg) => IsErr(ret)

C16_Witness ==
    /\ op = "from_str"
    /\ arg = <<"h","t","t","p","s",":","/","/","a",".","b","/","x","?","a","=","b","=","c">>
    /\ IsErr(ret)

\* C17 (as claimed): the string of a stripped URL is accepted by from_str and
\* parses back to the stripped URL, so stripping it again does not fail.
C17_StripClosed ==
    op = "strip_again" =>
        /\ from_str(arg) = Return(Ok(prev.value[2]))
        /\ IsOk(ret)
====
